---- MODULE Spec2Model ----
(***************************************************************************)
(* Model of src/array_optimizer.py: the oracle adapter evalAntenna, the    *)
(* driver optimize_antenna_array and the orchestration of __main__.        *)
(*                                                                         *)
(* Number representation.  Phases and amplitudes are fixed-point integers  *)
(* in units of 1e-4 (1380 is 0.1380).  A value formatted with              *)
(* f'{v:0.3f}' is the record [neg, milli]: the sign character and the      *)
(* magnitude in units of 1e-3.  Gain samples and the normalized target     *)
(* are integers in units of 1/One (One is 1.0).  An error value (an L2     *)
(* norm) is represented by its square, which is exact on these integers.   *)
(* Python index i of a vector is index i+1 of the sequence.  The integer 0 *)
(* is the float 0.0; the float -0.0 is outside the model's inputs.         *)
(***************************************************************************)
EXTENDS Integers, Sequences, FiniteSets, TLC

N == 5
Eps == 10
One == 2

MaxSamples == 2
MaxIter == 2
MaxEvals == 3

VARIABLES
  pc,           \* control position of the single thread
  target_raw,   \* target_pattern as given to optimize_antenna_array
  target,       \* target_pattern after normalization (line 123)
  maxiter,      \* maxiter argument
  err_vect,     \* the error trace list (line 133)
  iterations,   \* iteration counter of the search
  nEvals,       \* objective evaluations completed by the search
  incumbent,    \* lowest-error vertex of the search (result.x)
  best_f,       \* its error value, -1 before the first evaluation
  cand,         \* vertex the search is evaluating
  phases_amps,  \* the array object passed to evalAntenna
  arg0,         \* value of that array at the moment of the call
  caller,       \* "objective" | "main": who called evalAntenna
  traceOn,      \* err_vect is not None and target_pattern is not None
  N_samples,    \* N_samples argument of evalAntenna
  i,            \* loop index of the for loop of evalAntenna
  cmds,         \* commands received by the oracle since the last evaluation ended
  far_field,    \* far_field_data: "unset" | "data" | "none"
  gain_data,    \* gain_data of evalAntenna
  failedStep,   \* oracle step that failed in the evaluation: "none" | "analyze" | "query" | "extract"
  raisedBy,     \* statement whose exception left the program: "none" | "analyze" | "query" | "norm"
  result_x,     \* result.x
  ret_first,    \* first element of the returned triple
  ret_second,   \* second element of the returned triple
  nReturned     \* error_function calls that have returned a value

vars == <<pc, target_raw, target, maxiter, err_vect, iterations, nEvals,
          incumbent, best_f, cand, phases_amps, arg0, caller, traceOn,
          N_samples, i, cmds, far_field, gain_data, failedStep, raisedBy,
          result_x, ret_first, ret_second, nReturned>>

----------------------------------------------------------------------------
(* Pure helpers *)

Abs(v) == IF v < 0 THEN -v ELSE v

RECURSIVE SumSq(_)
SumSq(s) == IF s = <<>> THEN 0 ELSE Head(s) * Head(s) + SumSq(Tail(s))

RECURSIVE MaxAbs(_)
MaxAbs(s) ==
  IF s = <<>> THEN 0
  ELSE LET m == MaxAbs(Tail(s)) IN IF Abs(Head(s)) > m THEN Abs(Head(s)) ELSE m

\* np.zeros(n)
Zeros(n) == [k \in 1..n |-> 0]

\* np.abs(t) / np.max(np.abs(t)); exact when max|t| divides One * |t[k]|
Normalize(t) == [k \in 1..Len(t) |-> (Abs(t[k]) * One) \div MaxAbs(t)]

\* numpy broadcasting of two 1-d operands: equal lengths, or one of length 1
BroadcastOK(a, b) == Len(a) = Len(b) \/ Len(a) = 1 \/ Len(b) = 1

\* a - b under broadcasting (defined when BroadcastOK(a, b))
BSub(a, b) ==
  LET n == IF Len(a) = 1 THEN Len(b) ELSE Len(a)
  IN [k \in 1..n |-> (IF Len(a) = 1 THEN a[1] ELSE a[k])
                     - (IF Len(b) = 1 THEN b[1] ELSE b[k])]

\* np.linalg.norm(d), squared
NormSq(d) == SumSq(d)

\* 2^e mod 2000
RECURSIVE Pow2Mod(_)
Pow2Mod(e) == IF e = 0 THEN 1 ELSE (2 * Pow2Mod(e - 1)) % 2000

\* floor(log2(n / 2000)) for n >= 1
RECURSIVE Log2Up(_, _)
Log2Up(n, k) == IF 2000 * 2 * k <= n THEN 1 + Log2Up(n, 2 * k) ELSE 0
RECURSIVE Log2Down(_, _)
Log2Down(n, k) == IF n * k < 2000 THEN Log2Down(n, 2 * k) - 1 ELSE 0
Log2Floor(n) == IF n >= 2000 THEN Log2Up(n, 1) ELSE Log2Down(n, 1)

\* The integer m stands for the double nearest to m / 10000.  On a decimal
\* tie m = 10q + 5 the exact value is n / 2000 with n = 2q + 1, and the
\* double is round(n * 2^e / 2000) / 2^e with e = 52 - floor(log2(n / 2000)):
\* the remainder of n * 2^e modulo 2000 tells whether the double lies below
\* the tie (remainder under 1000), above it (over 1000), or on it (0).
TieRemainder(q) ==
  LET n == 2 * q + 1
  IN ((n % 2000) * Pow2Mod(52 - Log2Floor(n))) % 2000

\* format spec 0.3f on a magnitude: 1e-4 units to 1e-3 units.  The format
\* rounds the exact binary value of the double correctly, to even on a true
\* tie
RoundMilli(m) ==
  LET q == m \div 10
      r == m % 10
  IN IF r # 5 THEN (IF r > 5 THEN q + 1 ELSE q)
     ELSE LET f == TieRemainder(q)
          IN IF f = 0 THEN (IF q % 2 = 1 THEN q + 1 ELSE q)
             ELSE IF f > 1000 THEN q + 1 ELSE q

\* f'{v:0.3f}'
Fmt3(v) == [neg |-> v < 0, milli |-> RoundMilli(Abs(v))]

\* the floor test without abs(): a negative amplitude is replaced too
ClampNoAbs(a) == IF a < Eps THEN Eps ELSE a

\* if abs(amps[i]) < 1e-3: amps[i] = 1e-3   (value of amps[i] afterwards)
Clamp(a) == IF Abs(a) < Eps THEN Eps ELSE a

\* amps = phases_amps[N:] is a view of the array: a store to amps[i]
\* is a store to phases_amps[N+i]
StoreAmp(pa, idx, v) == [pa EXCEPT ![N + idx + 1] = v]

\* the loop written as range(N - 1): it ends one element early
LoopDoneEarly(idx) == idx >= N - 1

\* for i in range(N): the loop has run to completion
LoopDone(idx) == idx = N

\* err_vect.insert(0, errval): the new entry displaces the old ones
RecordErrFront(ev, e) == <<e>> \o ev

\* err_vect.append(errval)
RecordErr(ev, e) == Append(ev, e)

SetCmd(name, idx, val) == [op |-> name, idx |-> idx, val |-> val]
SolveCmd == [op |-> "analyze", idx |-> 0, val |-> Fmt3(0)]
QueryCmd == [op |-> "get_solution_data", idx |-> 0, val |-> Fmt3(0)]

----------------------------------------------------------------------------
(* Inputs *)

\* x0 = np.concatenate([phases, amplitudes]) of lines 127-130
X0 == <<5086, 3307, 1769, 4833, -2221, 1380, -2484, 2900, -2557, 1472>>

\* vertices the search may propose besides x0: amplitudes below, at and
\* above the floor, of both signs, and components on a decimal tie of the
\* 3-decimal format (-0.0005, 0.0625, 0.1875, -0.0055, -0.0015, 0.0025, 0.1005)
X2 == <<-5, 3307, 0, -12346, 625, 4, -6, 0, 10, -15>>
X3 == <<5086, 3472, 1875, 4833, -55, 9, -9, 25, -10, 1005>>
Candidates == {X0, X2, X3}

TargetInputs == { <<2>>, <<0, 2>>, <<-1, 2>> }

GainValues == {0, One}

RECURSIVE SeqsUpTo(_)
SeqsUpTo(n) ==
  IF n = 0 THEN { <<>> }
  ELSE LET prev == SeqsUpTo(n - 1)
       IN prev \cup { Append(s, g) : s \in { p \in prev : Len(p) = n - 1 }, g \in GainValues }

\* what far_field_data.data_magnitude("GainTotal") can return
OracleOutputs == SeqsUpTo(MaxSamples)

----------------------------------------------------------------------------
Init ==
  /\ pc = "start"
  /\ target_raw \in TargetInputs
  /\ target = <<>>
  /\ maxiter \in 1..MaxIter
  /\ err_vect = <<>>
  /\ iterations = 0
  /\ nEvals = 0
  /\ incumbent = X0
  /\ best_f = -1
  /\ cand = X0
  /\ phases_amps = X0
  /\ arg0 = X0
  /\ caller = "objective"
  /\ traceOn = FALSE
  /\ N_samples = 0
  /\ i = 0
  /\ cmds = <<>>
  /\ far_field = "unset"
  /\ gain_data = <<>>
  /\ failedStep = "none"
  /\ raisedBy = "none"
  /\ result_x = <<>>
  /\ ret_first = <<>>
  /\ ret_second = <<>>
  /\ nReturned = 0

driverVars == <<target_raw, target, maxiter, iterations, nEvals, incumbent, best_f,
                cand, result_x, ret_first, ret_second, nReturned>>
callVars == <<caller, traceOn, N_samples, arg0>>

\* optimize_antenna_array, lines 117-142
OptStart ==
  /\ pc = "start"
  /\ target' = Normalize(target_raw)
  /\ err_vect' = <<>>
  /\ pc' = "driver"
  /\ UNCHANGED <<target_raw, maxiter, iterations, nEvals, incumbent, best_f, cand,
                 phases_amps, arg0, caller, traceOn, N_samples, i, cmds, far_field,
                 gain_data, failedStep, raisedBy, result_x, ret_first, ret_second,
                 nReturned>>

\* minimize(error_function, x0, method='Nelder-Mead', maxiter, tol, callback)
\* is library code: the model keeps what the file fixes (the first vertex
\* is x0, every vertex is passed to error_function as a fresh array, the
\* iteration count is capped by maxiter, result.x is a lowest-error vertex)
\* and leaves the choice of the next vertex and the tolerance test open.
\* MaxEvals caps the number of evaluations of one run.
\*
\* the search calls error_function(x): evalAntenna(hfss, setup, Nsamples, x, err_vect, target_pattern)
DriverPropose ==
  /\ pc = "driver"
  /\ iterations < maxiter
  /\ nEvals < MaxEvals
  /\ \E x \in (IF nEvals = 0 THEN {X0} ELSE Candidates) :
       /\ cand' = x
       /\ phases_amps' = x
       /\ arg0' = x
  /\ caller' = "objective"
  /\ traceOn' = TRUE
  /\ N_samples' = Len(target)
  /\ i' = 0
  /\ far_field' = "unset"
  /\ gain_data' = <<>>
  /\ failedStep' = "none"
  /\ pc' = "eval_set"
  /\ UNCHANGED <<target_raw, target, maxiter, err_vect, iterations, nEvals, incumbent,
                 best_f, cmds, raisedBy, result_x, ret_first, ret_second, nReturned>>

\* evalAntenna, lines 79-82: one pass of the for loop
EvalSetVars ==
  /\ pc = "eval_set"
  /\ ~LoopDone(i)
  /\ LET a == Clamp(phases_amps[N + i + 1])
     IN /\ phases_amps' = StoreAmp(phases_amps, i, a)
        /\ cmds' = cmds \o << SetCmd("Phase", i, Fmt3(phases_amps[i + 1])),
                              SetCmd("Amp", i, Fmt3(a)) >>
  /\ i' = i + 1
  /\ UNCHANGED <<pc, err_vect, far_field, gain_data, failedStep, raisedBy>>
  /\ UNCHANGED driverVars
  /\ UNCHANGED callVars

\* evalAntenna, line 85: setup.analyze(), outside any try
EvalAnalyze ==
  /\ pc = "eval_set"
  /\ LoopDone(i)
  /\ cmds' = Append(cmds, SolveCmd)
  /\ \E ok \in BOOLEAN :
       IF ok
       THEN /\ pc' = "eval_query"
            /\ UNCHANGED <<failedStep, raisedBy>>
       ELSE /\ pc' = "raised"
            /\ failedStep' = "analyze"
            /\ raisedBy' = "analyze"
  /\ UNCHANGED <<err_vect, phases_amps, i, far_field, gain_data>>
  /\ UNCHANGED driverVars
  /\ UNCHANGED callVars

\* evalAntenna, lines 88-100: hfss.post.get_solution_data(...), outside any try
EvalQuery ==
  /\ pc = "eval_query"
  /\ cmds' = Append(cmds, QueryCmd)
  /\ \E out \in {"data", "none", "raise"} :
       IF out = "raise"
       THEN /\ pc' = "raised"
            /\ failedStep' = "query"
            /\ raisedBy' = "query"
            /\ UNCHANGED far_field
       ELSE /\ pc' = "eval_extract"
            /\ far_field' = out
            /\ failedStep' = IF out = "none" THEN "query" ELSE failedStep
            /\ UNCHANGED raisedBy
  /\ UNCHANGED <<err_vect, phases_amps, i, gain_data>>
  /\ UNCHANGED driverVars
  /\ UNCHANGED callVars

\* evalAntenna, lines 104-107: try data_magnitude / except zeros
EvalExtract ==
  /\ pc = "eval_extract"
  /\ IF far_field = "data"
     THEN \E ok \in BOOLEAN :
            IF ok
            THEN /\ gain_data' \in OracleOutputs
                 /\ UNCHANGED failedStep
            ELSE /\ gain_data' = Zeros(N_samples)
                 /\ failedStep' = "extract"
     ELSE /\ gain_data' = Zeros(N_samples)
          /\ UNCHANGED failedStep
  /\ pc' = "eval_record"
  /\ UNCHANGED <<err_vect, phases_amps, i, cmds, far_field, raisedBy>>
  /\ UNCHANGED driverVars
  /\ UNCHANGED callVars

\* evalAntenna, lines 109-112
EvalRecord ==
  /\ pc = "eval_record"
  /\ IF traceOn
     THEN IF BroadcastOK(gain_data, target)
          THEN /\ err_vect' = RecordErr(err_vect, NormSq(BSub(gain_data, target)))
               /\ pc' = "eval_return"
               /\ UNCHANGED raisedBy
          ELSE /\ pc' = "raised"
               /\ raisedBy' = "norm"
               /\ UNCHANGED err_vect
     ELSE /\ pc' = "eval_return"
          /\ UNCHANGED <<err_vect, raisedBy>>
  /\ UNCHANGED <<phases_amps, i, cmds, far_field, gain_data, failedStep>>
  /\ UNCHANGED driverVars
  /\ UNCHANGED callVars

\* evalAntenna, line 113: return gain_data
EvalReturn ==
  /\ pc = "eval_return"
  /\ pc' = IF caller = "objective" THEN "obj_norm" ELSE "done"
  /\ cmds' = <<>>
  /\ UNCHANGED <<err_vect, phases_amps, i, far_field, gain_data, failedStep, raisedBy>>
  /\ UNCHANGED driverVars
  /\ UNCHANGED callVars

\* error_function, line 143: the norm of the returned pattern minus the target;
\* the search keeps the lowest-error vertex
ObjectiveReturn ==
  /\ pc = "obj_norm"
  /\ LET f == NormSq(BSub(gain_data, target))
     IN IF best_f = -1 \/ f < best_f
        THEN /\ best_f' = f
             /\ incumbent' = cand
        ELSE UNCHANGED <<best_f, incumbent>>
  /\ nEvals' = nEvals + 1
  /\ nReturned' = nReturned + 1
  /\ pc' = "driver"
  /\ UNCHANGED <<target_raw, target, maxiter, err_vect, iterations, cand, phases_amps,
                 arg0, caller, traceOn, N_samples, i, cmds, far_field, gain_data,
                 failedStep, raisedBy, result_x, ret_first, ret_second>>

\* one iteration of the search ends: itter_callback(x) only prints (lines 135-139)
DriverIterate ==
  /\ pc = "driver"
  /\ nEvals > 0
  /\ iterations < maxiter
  /\ iterations' = iterations + 1
  /\ UNCHANGED <<pc, target_raw, target, maxiter, err_vect, nEvals, incumbent, best_f,
                 cand, phases_amps, arg0, caller, traceOn, N_samples, i, cmds,
                 far_field, gain_data, failedStep, raisedBy, result_x, ret_first,
                 ret_second, nReturned>>

\* the search stops, at the iteration cap or earlier when its tolerance test
\* (not modelled: any point after the first evaluation) is met; lines 156-159
DriverFinish ==
  /\ pc = "driver"
  /\ nEvals > 0
  /\ result_x' = incumbent
  /\ ret_first' = SubSeq(incumbent, 1, N)
  /\ ret_second' = SubSeq(incumbent, N + 1, 2 * N)
  /\ pc' = "opt_returned"
  /\ UNCHANGED <<target_raw, target, maxiter, err_vect, iterations, nEvals, incumbent,
                 best_f, cand, phases_amps, arg0, caller, traceOn, N_samples, i, cmds,
                 far_field, gain_data, failedStep, raisedBy, nReturned>>

\* __main__, lines 169-170: the variables bound to the triple are
\* optimized_amplitudes (first) and optimized_phases (second)
MainFinalEval ==
  /\ pc = "opt_returned"
  /\ phases_amps' = ret_second \o ret_first
  /\ arg0' = ret_second \o ret_first
  /\ caller' = "main"
  /\ traceOn' = FALSE
  /\ N_samples' = Len(target_raw)
  /\ i' = 0
  /\ far_field' = "unset"
  /\ gain_data' = <<>>
  /\ failedStep' = "none"
  /\ pc' = "eval_set"
  /\ UNCHANGED <<target_raw, target, maxiter, err_vect, iterations, nEvals, incumbent,
                 best_f, cand, cmds, raisedBy, result_x, ret_first, ret_second,
                 nReturned>>

Next ==
  \/ OptStart
  \/ DriverPropose
  \/ EvalSetVars
  \/ EvalAnalyze
  \/ EvalQuery
  \/ EvalExtract
  \/ EvalRecord
  \/ EvalReturn
  \/ ObjectiveReturn
  \/ DriverIterate
  \/ DriverFinish
  \/ MainFinalEval

Spec == Init /\ [][Next]_vars

TypeOK ==
  /\ pc \in {"start", "driver", "eval_set", "eval_query", "eval_extract", "eval_record",
             "eval_return", "obj_norm", "opt_returned", "raised", "done"}
  /\ i \in 0..N
  /\ Len(phases_amps) = 2 * N
  /\ iterations \in 0..MaxIter
----------------------------------------------------------------------------
(* Properties *)

InEval == pc \in {"eval_set", "eval_query", "eval_extract", "eval_record", "eval_return"}

\* C1: the first element of the returned triple is the amplitude half
\* (components N..2N-1) of result.x and the second is its phase half
\* (components 0..N-1).
C1_ReturnsAmplitudesThenPhases ==
  pc = "opt_returned" =>
    /\ ret_first = SubSeq(result_x, N + 1, 2 * N)
    /\ ret_second = SubSeq(result_x, 1, N)

\* C2: when any step of an evaluation fails (solve, far-field query or
\* extraction), evalAntenna raises nothing and returns the all-zero
\* sequence of length N_samples.
C2_DegradeOnAnyFailure ==
  failedStep # "none" =>
    /\ pc # "raised"
    /\ (pc = "eval_return" => gain_data = Zeros(N_samples))

\* C3: the sequence evalAntenna returns has exactly N_samples elements on
\* every path.
C3_ReturnsSampleCount ==
  pc = "eval_return" => Len(gain_data) = N_samples

\* C4: evalAntenna never changes the vector it is given: at every point of
\* a call the caller's array holds the values it had at the call.
C4_CallerVectorUnchanged ==
  (InEval \/ pc = "raised") => phases_amps = arg0

\* C5: every amplitude handed to the oracle has magnitude at least the floor
\* 1e-3; it is exactly the floor when the input amplitude has magnitude below
\* the floor, and the 3-decimal formatting of the input amplitude otherwise.
C5_AmplitudeFloor ==
  \A k \in 1..Len(cmds) :
    cmds[k].op = "Amp" =>
      LET a == arg0[N + cmds[k].idx + 1]
      IN /\ cmds[k].val.milli * 10 >= Eps
         /\ (Abs(a) < Eps => cmds[k].val = [neg |-> FALSE, milli |-> Eps \div 10])
         /\ (Abs(a) >= Eps => cmds[k].val = Fmt3(a))

\* an evaluation that has handed over a floored amplitude (from a negative
\* input below the floor) and an amplitude that is above the floor
C5_Witness ==
  \E k, m \in 1..Len(cmds) :
    /\ cmds[k].op = "Amp" /\ cmds[m].op = "Amp"
    /\ arg0[N + cmds[k].idx + 1] < 0
    /\ Abs(arg0[N + cmds[k].idx + 1]) < Eps
    /\ cmds[k].val.milli * 10 = Eps
    /\ arg0[N + cmds[m].idx + 1] < -Eps
    /\ cmds[m].val.neg

IsPrefix(s, t) == Len(s) <= Len(t) /\ SubSeq(t, 1, Len(s)) = s

\* C6: with the trace supplied, after k error_function calls that have
\* returned the trace has length exactly k (a call that has appended and
\* not yet returned accounts for one more), and the trace is append-only:
\* every step leaves the existing entries in place.
C6_TraceGrowth ==
  /\ [](Len(err_vect) = nReturned
          + (IF caller = "objective" /\ pc \in {"eval_return", "obj_norm"} THEN 1 ELSE 0))
  /\ [][IsPrefix(err_vect, err_vect')]_vars

\* two calls have returned, the second on the degraded zero pattern, and
\* the two entries differ
C6_Witness ==
  /\ pc = "driver"
  /\ nReturned = 2
  /\ Len(err_vect) = 2
  /\ failedStep = "extract"
  /\ err_vect[1] # err_vect[2]

\* C7: whenever the observed pattern's length differs from the target's, the
\* objective raises: no evaluation with the trace supplied gets past the
\* error computation (and appends) with a pattern of another length.
C7_MismatchIsFatal ==
  (traceOn /\ pc \in {"eval_return", "obj_norm"}) => Len(gain_data) = Len(target)

\* C8: for every oracle behaviour the search runs at most maxiter iterations
\* and returns its incumbent: no failed oracle step ends the run with an
\* exception.
C8_RunSurvivesOracleFailure ==
  /\ iterations <= maxiter
  /\ (pc = "raised" /\ caller = "objective") => raisedBy = "norm"

ExpectedOp(k) ==
  IF k <= 2 * N THEN (IF k % 2 = 1 THEN "Phase" ELSE "Amp")
  ELSE IF k = 2 * N + 1 THEN "analyze" ELSE "get_solution_data"

\* C9: within an evaluation the oracle receives Phase_i and Amp_i for
\* i = 0..N-1, then exactly one solve, then the far-field query; and a new
\* evaluation starts only when the previous one has returned, so the
\* commands of two evaluations never interleave.
C9_CommandOrder ==
  /\ Len(cmds) <= 2 * N + 2
  /\ \A k \in 1..Len(cmds) :
       /\ cmds[k].op = ExpectedOp(k)
       /\ (k <= 2 * N => cmds[k].idx = (k - 1) \div 2)
  /\ (pc = "eval_set" => Len(cmds) = 2 * i)
  /\ (pc = "eval_query" => Len(cmds) = 2 * N + 1)
  /\ (pc \in {"eval_extract", "eval_record", "eval_return"} => Len(cmds) = 2 * N + 2)
  /\ (~InEval /\ pc # "raised" => cmds = <<>>)

\* a second evaluation has issued all of its commands
C9_Witness ==
  /\ pc = "eval_return"
  /\ nReturned >= 1
  /\ Len(cmds) = 2 * N + 2
  /\ cmds[2 * N + 1].op = "analyze"

\* C10: the final diagnostic evaluation sets Phase_i from result.x[i] and
\* Amp_i from result.x[N+i] (after the floor): the vector it is given
\* equals result.x.
C10_FinalEvalMatchesResult ==
  (caller = "main" /\ pc = "eval_set" /\ LoopDone(i)) =>
    /\ arg0 = result_x
    /\ \A k \in 0..(N - 1) :
         /\ cmds[2 * k + 1].val = Fmt3(result_x[k + 1])
         /\ cmds[2 * k + 2].val = Fmt3(Clamp(result_x[N + k + 1]))
====
